---- MODULE Spec2Model ----
(***************************************************************************)
(* Model of the device-list notification handler of the device SDK         *)
(* (src/c/callback.c): edgex_device_handler_callback, run by concurrent    *)
(* REST flows, and edgex_device_register_devicelist_callbacks.  The device *)
(* map (edgex_devmap), the metadata client and the service start-up are    *)
(* collaborators of callback.c; they are modelled from their contracts.    *)
(***************************************************************************)
EXTENDS Integers, Sequences, FiniteSets, TLC

\* ---------------------------------------------------------------- bounds
MaxNotifs == 2          \* notifications received in one behaviour

\* ---------------------------------------------------------------- values
NULL == "NULL"                           \* a null string or function pointer
NULLDEV == [id |-> NULL]                 \* a null edgex_device pointer
Flows == {"f1", "f2"}                    \* concurrent REST flows
Ids == {"d1", "d2"}                      \* device ids
Names == {"n1", "n2"}                    \* device names
Protocols == {"p1", "p2"}                \* protocol configurations
OwnName == "device-template"             \* svc->name
OtherName == "device-other"              \* another device service
Methods == {"GET", "POST", "PUT", "DELETE"}
Types == {NULL, "DEVICE", "PROFILE"}     \* the payload's "type" member

MHD_HTTP_OK == 200
MHD_HTTP_BAD_REQUEST == 400
MHD_HTTP_NOT_IMPLEMENTED == 501

\* an edgex_device, as far as the handler reads it
Device(i, n, s, p, a) ==
  [id |-> i, name |-> n, service |-> s, protocols |-> p, adminState |-> a]

\* definitions of a device owned by this service: a base definition, one that
\* differs from it in the admin state only, one that differs in name and protocols
OwnDevices(i) ==
  { Device(i, "n1", OwnName, "p1", "UNLOCKED"),
    Device(i, "n1", OwnName, "p1", "LOCKED"),
    Device(i, "n2", OwnName, "p2", "UNLOCKED") }

\* a definition of the device that the metadata service assigns to another service
MovedDevices(i) ==
  { Device(i, "n2", OtherName, "p2", "UNLOCKED") }

\* what the metadata service can answer for a device id; NULLDEV is "absent or error"
Fetchable(i) == {NULLDEV} \cup OwnDevices(i) \cup MovedDevices(i)

\* the device lists a starting service can load: its own devices only
InitialDevices ==
  { [i \in Ids |-> NULLDEV],
    [i \in Ids |-> IF i = "d1" THEN Device("d1", "n1", OwnName, "p1", "UNLOCKED") ELSE NULLDEV] }

\* the notification a flow is handed: the payload's members and the HTTP method
NoPayload == [parsed |-> FALSE, type |-> NULL, id |-> NULL, method |-> "GET"]

\* a payload that is no JSON has no members; one that is JSON may lack any
Payloads ==
  [parsed : {FALSE}, type : {NULL}, id : {NULL}, method : Methods]
    \cup [parsed : {TRUE}, type : Types, id : Ids \cup {NULL}, method : Methods]

\* the notifications about a device: type DEVICE and an id, under any method
DevicePayloads == [parsed : {TRUE}, type : {"DEVICE"}, id : Ids, method : Methods]

VARIABLES
  devices,          \* svc->devices: id -> edgex_device or NULLDEV
  lock,             \* holder of the device map's lock, or NULL
  logger,           \* svc->logger: NULL until the service is started
  addcallback,      \* svc->addcallback
  updatecallback,   \* svc->updatecallback
  removecallback,   \* svc->removecallback
  pc,               \* per flow: where it is in the handler
  req,              \* per flow: the request as handed over (read by lines 37-51 only)
  id,               \* per flow: local id (line 48)
  branch,           \* per flow: the case label selected by the switch of line 51
  dev,              \* per flow: local dev (line 57)
  newdev,           \* per flow: local newdev (line 69)
  result,           \* per flow: value returned by edgex_devmap_replace_device
  status,           \* per flow: local status (line 34)
  removed,          \* per flow, history: what its removal found in the map
  calls,            \* per flow, history: the callbacks it invoked, with arguments
  view,             \* per flow, history: its id was "absent" or "present" in the map
                    \*   on entry, or has been "removed" from the map since
  crashed,          \* the flow whose invalid memory access killed the process, or NULL
  nnotif,           \* notifications received so far
  registered,       \* history: a registration call has stored its callbacks
  rejected,         \* history: a registration call has been rejected and logged
  pending,          \* history, per device id: the flows that have mutated the
                    \*   map and not yet finished their dispatch, in mutation order
  delivered         \* history, per device id: the lifecycle callback the driver
                    \*   received last for it, or NULL

vars == <<devices, lock, logger, addcallback, updatecallback, removecallback,
          pc, req, id, branch, dev, newdev, result, status, removed, calls, view,
          crashed, nnotif, registered, rejected, pending, delivered>>

callbacks == <<addcallback, updatecallback, removecallback>>
svcvars == <<logger, addcallback, updatecallback, removecallback, registered, rejected>>
locals == <<req, id, branch, dev, newdev, result, status, removed, calls, view>>

\* ---------------------------------------------------------------- history
GARBAGE == "GARBAGE"   \* what a read through a null pointer produced
Call(c, n, p) == [cb |-> c, name |-> n, protocols |-> p]

\* a sequence without the entries equal to x
RECURSIVE Without(_, _)
Without(q, x) ==
  IF q = <<>> THEN <<>>
  ELSE IF Head(q) = x THEN Without(Tail(q), x)
  ELSE <<Head(q)>> \o Without(Tail(q), x)

\* the flow has mutated the map entry of device i
Mutated(f, i) == pending' = [pending EXCEPT ![i] = Append(@, f)]
\* the flow has finished the dispatch for its mutation of the map entry of device i
Dispatched(f, i) == pending' = [pending EXCEPT ![i] = Without(@, f)]

Init ==
  /\ devices = [i \in Ids |-> NULLDEV]
  /\ lock = NULL
  /\ logger = NULL
  /\ addcallback = NULL
  /\ updatecallback = NULL
  /\ removecallback = NULL
  /\ pc = [f \in Flows |-> "idle"]
  /\ req = [f \in Flows |-> NoPayload]
  /\ id = [f \in Flows |-> NULL]
  /\ branch = [f \in Flows |-> NULL]
  /\ dev = [f \in Flows |-> NULLDEV]
  /\ newdev = [f \in Flows |-> NULLDEV]
  /\ result = [f \in Flows |-> NULL]
  /\ status = [f \in Flows |-> MHD_HTTP_OK]
  /\ removed = [f \in Flows |-> NULLDEV]
  /\ calls = [f \in Flows |-> <<>>]
  /\ view = [f \in Flows |-> NULL]
  /\ crashed = NULL
  /\ nnotif = 0
  /\ registered = FALSE
  /\ rejected = FALSE
  /\ pending = [i \in Ids |-> <<>>]
  /\ delivered = [i \in Ids |-> NULL]

\* ---------------------------------------------------------------- service
\* variant: the test of svc->logger is missing
edgex_device_register_unchecked(add_device, update_device, remove_device) ==
  /\ crashed = NULL
  /\ addcallback' = add_device
  /\ updatecallback' = update_device
  /\ removecallback' = remove_device
  /\ registered' = TRUE
  /\ UNCHANGED <<delivered, devices, lock, logger, rejected, pc, locals, crashed, nnotif, pending>>

\* variant: a call after the start logs the error and clears the callbacks
edgex_device_register_reset(add_device, update_device, remove_device) ==
  /\ crashed = NULL
  /\ IF logger # NULL
       THEN /\ rejected' = TRUE
            /\ addcallback' = NULL
            /\ updatecallback' = NULL
            /\ removecallback' = NULL
            /\ UNCHANGED registered
       ELSE /\ addcallback' = add_device
            /\ updatecallback' = update_device
            /\ removecallback' = remove_device
            /\ registered' = TRUE
            /\ UNCHANGED rejected
  /\ UNCHANGED <<delivered, devices, lock, logger, pc, locals, crashed, nnotif, pending>>

\* edgex_device_register_devicelist_callbacks (callback.c:127-144)
edgex_device_register_devicelist_callbacks(add_device, update_device, remove_device) ==
  /\ crashed = NULL
  /\ IF logger # NULL
       THEN /\ rejected' = TRUE
            /\ UNCHANGED <<addcallback, updatecallback, removecallback, registered>>
       ELSE /\ addcallback' = add_device
            /\ updatecallback' = update_device
            /\ removecallback' = remove_device
            /\ registered' = TRUE
            /\ UNCHANGED rejected
  /\ UNCHANGED <<delivered, devices, lock, logger, pc, locals, crashed, nnotif, pending>>

\* the application registers any of its callbacks, before or after the start
\* (rejected calls after the first one repeat it exactly)
Register ==
  /\ logger # NULL => ~rejected
  /\ \E a \in {NULL, "add_device"}, u \in {NULL, "update_device"},
        r \in {NULL, "remove_device"} :
       edgex_device_register_devicelist_callbacks(a, u, r)

\* edgex_device_service_start: creates the logger, loads the service's own
\* devices and only then lets the REST server hand requests to the handler
edgex_device_service_start ==
  /\ crashed = NULL
  /\ logger = NULL
  /\ logger' = "logger"
  /\ devices' \in InitialDevices
  /\ UNCHANGED <<delivered, lock, callbacks, registered, rejected, pc, locals, crashed,
                 nnotif, pending>>

\* ---------------------------------------------------------------- device map
\* edgex_devmap_device_byid: the record stored for an id, or NULLDEV
edgex_devmap_device_byid(map, i) == map[i]

\* edgex_devmap_removedevice_byid: the map without the id's entry
edgex_devmap_removedevice_byid(map, i) == [map EXCEPT ![i] = NULLDEV]

\* classification returned by edgex_devmap_replace_device
Classify(old, new) ==
  IF old = NULLDEV THEN "CREATED"
  ELSE IF old.protocols # new.protocols \/ old.adminState # new.adminState
         THEN "UPDATED_DRIVER"
         ELSE "UPDATED_SDK"

\* edgex_devmap_replace_device: the map with the new record stored unconditionally
edgex_devmap_replace_device(map, new) == [map EXCEPT ![new.id] = new]

\* variant: an operation returns without releasing the lock
DevmapLeaveLocked(f) == lock = f /\ lock' = f

\* every device map operation runs under the map's lock and releases it on return
DevmapEnter(f) == lock = NULL /\ lock' = f
DevmapLeave(f) == lock = f /\ lock' = NULL

\* ---------------------------------------------------------------- handler
Goto(f, l) == pc' = [pc EXCEPT ![f] = l]

\* the request is not read after the switch of line 51
Forget(f) == req' = [req EXCEPT ![f] = NoPayload]

\* callback.c:53-55: case DELETE and the test of svc->removecallback
DeleteEntry == IF removecallback # NULL THEN "del_byid" ELSE "del_remove"

\* variant: the else branch of line 118 is missing
HandlerEntryNoTypeElse(p) ==
  IF ~p.parsed
    THEN [pc |-> "done", branch |-> NULL, status |-> MHD_HTTP_BAD_REQUEST]
  ELSE IF ~(p.type # NULL /\ p.type = "DEVICE")
    THEN [pc |-> "done", branch |-> NULL, status |-> MHD_HTTP_OK]
  ELSE IF p.id = NULL
    THEN [pc |-> "done", branch |-> NULL, status |-> MHD_HTTP_BAD_REQUEST]
  ELSE IF p.method = "DELETE"
    THEN [pc |-> DeleteEntry, branch |-> "DELETE", status |-> MHD_HTTP_OK]
  ELSE IF p.method \in {"POST", "PUT"}
    THEN [pc |-> "fetch", branch |-> "POST_PUT", status |-> MHD_HTTP_OK]
  ELSE [pc |-> "done", branch |-> "default", status |-> MHD_HTTP_NOT_IMPLEMENTED]

\* variant: the else branch of line 112 is missing
HandlerEntryNoIdElse(p) ==
  IF ~p.parsed
    THEN [pc |-> "done", branch |-> NULL, status |-> MHD_HTTP_BAD_REQUEST]
  ELSE IF ~(p.type # NULL /\ p.type = "DEVICE")
    THEN [pc |-> "done", branch |-> NULL, status |-> MHD_HTTP_NOT_IMPLEMENTED]
  ELSE IF p.id = NULL
    THEN [pc |-> "done", branch |-> NULL, status |-> MHD_HTTP_OK]
  ELSE IF p.method = "DELETE"
    THEN [pc |-> DeleteEntry, branch |-> "DELETE", status |-> MHD_HTTP_OK]
  ELSE IF p.method \in {"POST", "PUT"}
    THEN [pc |-> "fetch", branch |-> "POST_PUT", status |-> MHD_HTTP_OK]
  ELSE [pc |-> "done", branch |-> "default", status |-> MHD_HTTP_NOT_IMPLEMENTED]

\* variant: the default case of line 107 is missing
HandlerEntryNoDefault(p) ==
  IF ~p.parsed
    THEN [pc |-> "done", branch |-> NULL, status |-> MHD_HTTP_BAD_REQUEST]
  ELSE IF ~(p.type # NULL /\ p.type = "DEVICE")
    THEN [pc |-> "done", branch |-> NULL, status |-> MHD_HTTP_NOT_IMPLEMENTED]
  ELSE IF p.id = NULL
    THEN [pc |-> "done", branch |-> NULL, status |-> MHD_HTTP_BAD_REQUEST]
  ELSE IF p.method = "DELETE"
    THEN [pc |-> DeleteEntry, branch |-> "DELETE", status |-> MHD_HTTP_OK]
  ELSE IF p.method \in {"POST", "PUT"}
    THEN [pc |-> "fetch", branch |-> "POST_PUT", status |-> MHD_HTTP_OK]
  ELSE [pc |-> "done", branch |-> "default", status |-> MHD_HTTP_OK]

\* callback.c:37-51 and 107-124: parse the payload and select the branch
HandlerEntry(p) ==
  IF ~p.parsed
    THEN [pc |-> "done", branch |-> NULL, status |-> MHD_HTTP_BAD_REQUEST]
  ELSE IF ~(p.type # NULL /\ p.type = "DEVICE")
    THEN [pc |-> "done", branch |-> NULL, status |-> MHD_HTTP_NOT_IMPLEMENTED]
  ELSE IF p.id = NULL
    THEN [pc |-> "done", branch |-> NULL, status |-> MHD_HTTP_BAD_REQUEST]
  ELSE IF p.method = "DELETE"
    THEN [pc |-> DeleteEntry, branch |-> "DELETE", status |-> MHD_HTTP_OK]
  ELSE IF p.method \in {"POST", "PUT"}
    THEN [pc |-> "fetch", branch |-> "POST_PUT", status |-> MHD_HTTP_OK]
  ELSE [pc |-> "done", branch |-> "default", status |-> MHD_HTTP_NOT_IMPLEMENTED]

\* the REST server hands a request to a free flow; idle flows are
\* interchangeable, so the first of them stands for any
FirstFree(f) == f = "f1" \/ pc["f1"] # "idle"

\* a REST flow enters edgex_device_handler_callback with a request
Accept(f, p) ==
  /\ crashed = NULL
  /\ logger # NULL
  /\ pc[f] = "idle"
  /\ FirstFree(f)
  /\ nnotif < MaxNotifs
  /\ req' = [req EXCEPT ![f] = p]
  /\ id' = [id EXCEPT ![f] = IF p.parsed /\ p.type = "DEVICE" THEN p.id ELSE NULL]
  /\ Goto(f, HandlerEntry(p).pc)
  /\ branch' = [branch EXCEPT ![f] = HandlerEntry(p).branch]
  /\ status' = [status EXCEPT ![f] = HandlerEntry(p).status]
  /\ nnotif' = nnotif + 1
  /\ view' = [view EXCEPT ![f] = IF id'[f] = NULL THEN NULL
                                 ELSE IF devices[id'[f]] = NULLDEV THEN "absent"
                                 ELSE "present"]
  /\ UNCHANGED <<delivered, devices, lock, svcvars, dev, newdev, result, removed, calls,
                 crashed, pending>>

\* a notification about a device arrives while other flows are running
Receive(f) == \E p \in DevicePayloads : Accept(f, p)

\* callback.c:57: dev = edgex_devmap_device_byid (svc->devices, id)
DeleteLookup(f) ==
  /\ crashed = NULL
  /\ pc[f] = "del_byid"
  /\ DevmapEnter(f)
  /\ dev' = [dev EXCEPT ![f] = edgex_devmap_device_byid(devices, id[f])]
  /\ Goto(f, "del_byid_ret")
  /\ Forget(f)
  /\ UNCHANGED <<delivered, devices, svcvars, id, branch, newdev, result, status, removed, calls,
                 view, crashed, nnotif, pending>>

DeleteLookupReturn(f) ==
  /\ crashed = NULL
  /\ pc[f] = "del_byid_ret"
  /\ DevmapLeave(f)
  /\ Goto(f, "del_remove")
  /\ UNCHANGED <<delivered, devices, svcvars, locals, crashed, nnotif, pending>>

\* history of a removal: what the map held for the id
Removal(f, i) ==
  /\ removed' = [removed EXCEPT ![f] = devices[i]]
  /\ view' = [g \in Flows |->
               IF id[g] = i /\ devices[i] # NULLDEV THEN "removed" ELSE view[g]]
  /\ Mutated(f, i)

\* variant: the removal empties the map instead of removing the one id
DeleteRemoveAll(f) ==
  /\ crashed = NULL
  /\ pc[f] = "del_remove"
  /\ DevmapEnter(f)
  /\ devices' = [i \in Ids |-> NULLDEV]
  /\ Removal(f, id[f])
  /\ Goto(f, "del_remove_ret")
  /\ Forget(f)
  /\ UNCHANGED <<delivered, svcvars, id, branch, dev, newdev, result, status, calls,
                 crashed, nnotif>>

\* callback.c:58 and 64: edgex_devmap_removedevice_byid (svc->devices, id)
DeleteRemove(f) ==
  /\ crashed = NULL
  /\ pc[f] = "del_remove"
  /\ DevmapEnter(f)
  /\ devices' = edgex_devmap_removedevice_byid(devices, id[f])
  /\ Removal(f, id[f])
  /\ Goto(f, "del_remove_ret")
  /\ Forget(f)
  /\ UNCHANGED <<delivered, svcvars, id, branch, dev, newdev, result, status, calls,
                 crashed, nnotif>>

\* variant: the removal is not followed by the callback
AfterDeleteSilent == "done"

\* callback.c:55-61: only the branch that looked dev up invokes the callback
AfterDelete == IF removecallback # NULL THEN "del_cb" ELSE "done"

DeleteRemoveReturn(f) ==
  /\ crashed = NULL
  /\ pc[f] = "del_remove_ret"
  /\ DevmapLeave(f)
  /\ Goto(f, AfterDelete)
  /\ IF AfterDelete = "done" THEN Dispatched(f, id[f]) ELSE UNCHANGED pending
  /\ UNCHANGED <<delivered, devices, svcvars, locals, crashed, nnotif>>

\* a lifecycle callback of the driver runs with the given arguments
Invoke(f, i, c, n, p) ==
  /\ calls' = [calls EXCEPT ![f] = Append(@, Call(c, n, p))]
  /\ Dispatched(f, i)
  /\ delivered' = [delivered EXCEPT ![i] = c]

\* callback.c:59-60: svc->removecallback (svc->userdata, dev->name, dev->protocols).
\* With dev = NULL the reads of dev->name and dev->protocols are invalid: the
\* process is killed, or the callback runs with whatever the reads produced.
DeleteCallback(f) ==
  /\ crashed = NULL
  /\ pc[f] = "del_cb"
  /\ IF dev[f] # NULLDEV
       THEN /\ Invoke(f, id[f], "remove", dev[f].name, dev[f].protocols)
            /\ Goto(f, "done")
            /\ UNCHANGED crashed
       ELSE \/ /\ crashed' = f
               /\ UNCHANGED <<pc, calls, pending, delivered>>
            \/ /\ Invoke(f, id[f], "remove", GARBAGE, GARBAGE)
               /\ Goto(f, "done")
               /\ UNCHANGED crashed
  /\ UNCHANGED <<devices, lock, svcvars, req, id, branch, dev, newdev, result, status,
                 removed, view, nnotif>>

\* variant: the owner of the fetched device is not compared
MovedIgnored(d) == FALSE

\* callback.c:69-70: the flow is inside edgex_metadata_client_get_device until
\* the metadata service answers; callback.c:71-73 then select the branch
Moved(d) == d.service # OwnName

\* variant: a fetch that returns nothing is taken for a device that is gone
AfterFetchNullRemoves(d) ==
  IF d = NULLDEV THEN "mv_remove"
  ELSE IF Moved(d) THEN "mv_remove"
  ELSE "replace"

AfterFetch(d) ==
  IF d = NULLDEV THEN "done"
  ELSE IF Moved(d) THEN "mv_remove"
  ELSE "replace"

FetchReturn(f) ==
  /\ crashed = NULL
  /\ pc[f] = "fetch"
  /\ \E d \in Fetchable(id[f]) :
       /\ newdev' = [newdev EXCEPT ![f] = d]
       /\ Goto(f, AfterFetch(d))
  /\ Forget(f)
  /\ UNCHANGED <<delivered, devices, lock, svcvars, id, branch, dev, result, status, removed, calls,
                 view, crashed, nnotif, pending>>

\* callback.c:76: edgex_devmap_removedevice_byid (svc->devices, id)
MovedRemove(f) ==
  /\ crashed = NULL
  /\ pc[f] = "mv_remove"
  /\ DevmapEnter(f)
  /\ devices' = edgex_devmap_removedevice_byid(devices, id[f])
  /\ Removal(f, id[f])
  /\ Goto(f, "mv_remove_ret")
  /\ UNCHANGED <<delivered, svcvars, req, id, branch, dev, newdev, result, status, calls, crashed,
                 nnotif>>

\* variant: a device that moved away is removed without the callback
AfterMovedSilent == "done"

\* callback.c:77: if (svc->removecallback)
AfterMoved == IF removecallback # NULL THEN "mv_cb" ELSE "done"

MovedRemoveReturn(f) ==
  /\ crashed = NULL
  /\ pc[f] = "mv_remove_ret"
  /\ DevmapLeave(f)
  /\ Goto(f, AfterMoved)
  /\ IF AfterMoved = "done" THEN Dispatched(f, id[f]) ELSE UNCHANGED pending
  /\ UNCHANGED <<delivered, devices, svcvars, locals, crashed, nnotif>>

\* callback.c:79: svc->removecallback (svc->userdata, newdev->name, newdev->protocols)
MovedCallback(f) ==
  /\ crashed = NULL
  /\ pc[f] = "mv_cb"
  /\ Invoke(f, id[f], "remove", newdev[f].name, newdev[f].protocols)
  /\ Goto(f, "done")
  /\ UNCHANGED <<devices, lock, svcvars, req, id, branch, dev, newdev, result, status,
                 removed, view, crashed, nnotif>>

\* callback.c:86: edgex_devmap_replace_device (svc->devices, newdev)
Replace(f) ==
  /\ crashed = NULL
  /\ pc[f] = "replace"
  /\ DevmapEnter(f)
  /\ result' = [result EXCEPT ![f] = Classify(devices[newdev[f].id], newdev[f])]
  /\ devices' = edgex_devmap_replace_device(devices, newdev[f])
  /\ Mutated(f, newdev[f].id)
  /\ Goto(f, "replace_ret")
  /\ UNCHANGED <<delivered, svcvars, req, id, branch, dev, newdev, status, removed, calls, view,
                 crashed, nnotif>>

\* variant: the cases CREATED and UPDATED_DRIVER are exchanged
DispatchSwapped(r) ==
  IF r = "UPDATED_DRIVER" THEN (IF addcallback # NULL THEN "add_cb" ELSE "done")
  ELSE IF r = "CREATED" THEN (IF updatecallback # NULL THEN "upd_cb" ELSE "done")
  ELSE "done"

\* variant: case CREATED falls through from case UPDATED_DRIVER
DispatchAddOnUpdate(r) ==
  IF r \in {"CREATED", "UPDATED_DRIVER"}
    THEN (IF addcallback # NULL THEN "add_cb" ELSE "done")
    ELSE "done"

\* callback.c:86-102: the switch on the classification
Dispatch(r) ==
  IF r = "CREATED" THEN (IF addcallback # NULL THEN "add_cb" ELSE "done")
  ELSE IF r = "UPDATED_DRIVER" THEN (IF updatecallback # NULL THEN "upd_cb" ELSE "done")
  ELSE "done"

ReplaceReturn(f) ==
  /\ crashed = NULL
  /\ pc[f] = "replace_ret"
  /\ DevmapLeave(f)
  /\ Goto(f, Dispatch(result[f]))
  /\ IF Dispatch(result[f]) = "done" THEN Dispatched(f, id[f]) ELSE UNCHANGED pending
  /\ UNCHANGED <<delivered, devices, svcvars, locals, crashed, nnotif>>

\* callback.c:91: svc->addcallback (svc->userdata, newdev->name, newdev->protocols, ...)
AddCallback(f) ==
  /\ crashed = NULL
  /\ pc[f] = "add_cb"
  /\ Invoke(f, newdev[f].id, "add", newdev[f].name, newdev[f].protocols)
  /\ Goto(f, "done")
  /\ UNCHANGED <<devices, lock, svcvars, req, id, branch, dev, newdev, result, status,
                 removed, view, crashed, nnotif>>

\* callback.c:97: svc->updatecallback (svc->userdata, newdev->name, newdev->protocols, ...)
UpdateCallback(f) ==
  /\ crashed = NULL
  /\ pc[f] = "upd_cb"
  /\ Invoke(f, newdev[f].id, "update", newdev[f].name, newdev[f].protocols)
  /\ Goto(f, "done")
  /\ UNCHANGED <<devices, lock, svcvars, req, id, branch, dev, newdev, result, status,
                 removed, view, crashed, nnotif>>

\* callback.c:123-124: return status; the flow's locals are gone
Return(f) ==
  /\ crashed = NULL
  /\ pc[f] = "done"
  /\ Goto(f, "idle")
  /\ req' = [req EXCEPT ![f] = NoPayload]
  /\ id' = [id EXCEPT ![f] = NULL]
  /\ branch' = [branch EXCEPT ![f] = NULL]
  /\ dev' = [dev EXCEPT ![f] = NULLDEV]
  /\ newdev' = [newdev EXCEPT ![f] = NULLDEV]
  /\ result' = [result EXCEPT ![f] = NULL]
  /\ status' = [status EXCEPT ![f] = MHD_HTTP_OK]
  /\ removed' = [removed EXCEPT ![f] = NULLDEV]
  /\ calls' = [calls EXCEPT ![f] = <<>>]
  /\ view' = [view EXCEPT ![f] = NULL]
  /\ UNCHANGED <<delivered, devices, lock, svcvars, crashed, nnotif, pending>>

\* ---------------------------------------------------------------- system
Handler(f) ==
  \/ DeleteLookup(f)
  \/ DeleteLookupReturn(f)
  \/ DeleteRemove(f)
  \/ DeleteRemoveReturn(f)
  \/ DeleteCallback(f)
  \/ FetchReturn(f)
  \/ MovedRemove(f)
  \/ MovedRemoveReturn(f)
  \/ MovedCallback(f)
  \/ Replace(f)
  \/ ReplaceReturn(f)
  \/ AddCallback(f)
  \/ UpdateCallback(f)
  \/ Return(f)

Next ==
  \/ Register
  \/ edgex_device_service_start
  \/ \E f \in Flows : Receive(f) \/ Handler(f)

Spec == Init /\ [][Next]_vars

\* the notifications of any shape that name no device or the device d1: a
\* payload that is no JSON, one without type or id, one about another resource
AnyPayloads == { p \in Payloads : p.id # "d2" }

\* a notification of any shape arrives while other flows are running
ReceiveAny(f) == \E p \in AnyPayloads : Accept(f, p)

NextAny ==
  \/ Register
  \/ edgex_device_service_start
  \/ \E f \in Flows : ReceiveAny(f) \/ Handler(f)

SpecAny == Init /\ [][NextAny]_vars

\* a started service with an empty device list whose application registered
\* all three callbacks before the start
InitStarted ==
  /\ devices = [i \in Ids |-> NULLDEV]
  /\ lock = NULL
  /\ logger = "logger"
  /\ addcallback = "add_device"
  /\ updatecallback = "update_device"
  /\ removecallback = "remove_device"
  /\ pc = [f \in Flows |-> "idle"]
  /\ req = [f \in Flows |-> NoPayload]
  /\ id = [f \in Flows |-> NULL]
  /\ branch = [f \in Flows |-> NULL]
  /\ dev = [f \in Flows |-> NULLDEV]
  /\ newdev = [f \in Flows |-> NULLDEV]
  /\ result = [f \in Flows |-> NULL]
  /\ status = [f \in Flows |-> MHD_HTTP_OK]
  /\ removed = [f \in Flows |-> NULLDEV]
  /\ calls = [f \in Flows |-> <<>>]
  /\ view = [f \in Flows |-> NULL]
  /\ crashed = NULL
  /\ nnotif = 0
  /\ registered = TRUE
  /\ rejected = FALSE
  /\ pending = [i \in Ids |-> <<>>]
  /\ delivered = [i \in Ids |-> NULL]

NextStarted == \E f \in Flows : Receive(f) \/ Handler(f)

SpecStarted == InitStarted /\ [][NextStarted]_vars

\* the REST server runs each request on a thread of its own and the operating
\* system schedules every runnable thread: a flow that can take a step of the
\* handler eventually takes one
SpecFair == SpecStarted /\ \A f \in Flows : WF_vars(Handler(f))

\* ---------------------------------------------------------------- claims
Registered(cb) == cb # NULL
OK(f) == status[f] = MHD_HTTP_OK
Finished(f) == pc[f] = "done"

\* the flow handles a `deleted` notification and neither its lookup (when it
\* made one) nor its removal found the id, which was absent on entry too
DeletedAbsent(f) ==
  /\ branch[f] = "DELETE"
  /\ view[f] = "absent"
  /\ pc[f] \in {"del_cb", "done"}
  /\ dev[f] = NULLDEV
  /\ removed[f] = NULLDEV

\* C1: a `deleted` notification for an id that is absent from the registry
\* invokes no lifecycle callback, with or without a registered onRemove, and
\* its handler completes normally.
C1_AbsentDeleteIsSilent ==
  \A f \in Flows : DeletedAbsent(f) => calls[f] = <<>> /\ crashed # f

\* the two flows handle `deleted` notifications for the same id, both were in
\* flight and had seen its record when it was removed, and exactly one removal
\* found a record
ConcurrentDeletes(f, g) ==
  /\ f # g
  /\ branch[f] = "DELETE" /\ branch[g] = "DELETE"
  /\ id[f] = id[g]
  /\ view[f] = "removed" /\ view[g] = "removed"
  /\ dev[f] # NULLDEV /\ dev[g] # NULLDEV
  /\ Finished(f) /\ Finished(g)
  /\ (removed[f] # NULLDEV) # (removed[g] # NULLDEV)

\* C2: two concurrent `deleted` notifications for an id present once invoke
\* onRemove exactly once in total when it is registered.
C2_RemoveCallbackOnce ==
  \A f, g \in Flows :
    ConcurrentDeletes(f, g) /\ Registered(removecallback)
      => Len(calls[f]) + Len(calls[g]) = 1

\* the flow handles a `created` or `updated` notification whose fetched record
\* is owned by this service, and has finished
OwnedDone(f) ==
  /\ branch[f] = "POST_PUT"
  /\ Finished(f)
  /\ newdev[f] # NULLDEV
  /\ newdev[f].service = OwnName

\* the invocations the dispatch owes for a classification
Owed(r, d) ==
  IF r = "CREATED" /\ Registered(addcallback)
    THEN <<Call("add", d.name, d.protocols)>>
  ELSE IF r = "UPDATED_DRIVER" /\ Registered(updatecallback)
    THEN <<Call("update", d.name, d.protocols)>>
  ELSE <<>>

\* C3: for a `created` or `updated` notification whose fetched record is owned
\* by this service, the classification of the replace decides the callback:
\* CREATED onAdd once, UPDATED_DRIVER onUpdate once, UPDATED_SDK none, each only
\* if registered, nothing else, and the response is OK.
C3_DispatchByClassification ==
  \A f \in Flows :
    OwnedDone(f) =>
      /\ result[f] \in {"CREATED", "UPDATED_DRIVER", "UPDATED_SDK"}
      /\ calls[f] = Owed(result[f], newdev[f])
      /\ OK(f)

C3_Witness ==
  \E f, g \in Flows :
    /\ OwnedDone(f) /\ result[f] = "CREATED" /\ Len(calls[f]) = 1
    /\ OwnedDone(g) /\ result[g] = "UPDATED_DRIVER" /\ Len(calls[g]) = 1

\* C4: every record in the registry is owned by this service, and a fetched
\* record owned by another service is never handed to the replace.
C4_OnlyOwnDevices ==
  /\ \A i \in Ids : devices[i] # NULLDEV => devices[i].service = OwnName
  /\ \A f \in Flows :
       pc[f] \in {"replace", "replace_ret"} => newdev[f].service = OwnName

C4_Witness ==
  \E f, g \in Flows :
    /\ pc[f] = "replace_ret" /\ devices[id[f]] = newdev[f]
    /\ pc[g] = "done" /\ newdev[g] # NULLDEV /\ newdev[g].service = OtherName

\* the flow handles a `created` or `updated` notification whose fetched record
\* is owned by another service
MovedAway(f) ==
  /\ branch[f] = "POST_PUT"
  /\ newdev[f] # NULLDEV
  /\ newdev[f].service # OwnName

\* C5: a `created` or `updated` notification whose fetched record is owned by
\* another service leaves no record for the id, invokes neither onAdd nor
\* onUpdate, and invokes onRemove (if registered) exactly once with the fetched
\* record's name and protocols, also when no record was present locally.
C5_MovedIsRemoval ==
  \A f \in Flows :
    MovedAway(f) =>
      /\ pc[f] \in {"mv_remove", "mv_remove_ret", "mv_cb", "done"}
      /\ pc[f] = "mv_remove_ret" => devices[id[f]] = NULLDEV
      /\ pc[f] # "done" => calls[f] = <<>>
      /\ Finished(f) =>
           /\ calls[f] = IF Registered(removecallback)
                           THEN <<Call("remove", newdev[f].name, newdev[f].protocols)>>
                           ELSE <<>>
           /\ OK(f)

C5_Witness ==
  \E f \in Flows :
    /\ MovedAway(f) /\ Finished(f)
    /\ view[f] = "absent" /\ removed[f] = NULLDEV
    /\ calls[f] = <<Call("remove", newdev[f].name, newdev[f].protocols)>>

\* the flow handles a `deleted` notification and its first access to the
\* registry found the id: the lookup of line 57, or else the removal of line 64
DeletedPresent(f) ==
  /\ branch[f] = "DELETE"
  /\ IF Registered(removecallback) THEN dev[f] # NULLDEV ELSE removed[f] # NULLDEV

\* C6: a `deleted` notification for an id present in the registry removes the
\* record whether or not onRemove is registered and answers OK; a registered
\* onRemove is invoked once, and only after the removal.
C6_DeleteRemoves ==
  \A f \in Flows :
    branch[f] = "DELETE" =>
      /\ pc[f] = "del_remove_ret" => devices[id[f]] = NULLDEV
      /\ pc[f] \in {"del_byid", "del_byid_ret", "del_remove", "del_remove_ret"}
           => calls[f] = <<>>
      /\ DeletedPresent(f) /\ Finished(f) =>
           /\ Len(calls[f]) = (IF Registered(removecallback) THEN 1 ELSE 0)
           /\ \A k \in 1..Len(calls[f]) : calls[f][k].cb = "remove"
           /\ OK(f)

C6_Witness ==
  \E f, g \in Flows :
    /\ DeletedPresent(f) /\ Finished(f) /\ removed[f] # NULLDEV
    /\ Len(calls[f]) = 1 /\ devices[id[f]] = NULLDEV
    /\ pc[g] = "idle"

\* the two flows have replaced the record of the same id, which was absent from
\* the registry when each of them entered and has not been removed since
ConcurrentCreates(f, g) ==
  /\ f # g
  /\ branch[f] = "POST_PUT" /\ branch[g] = "POST_PUT"
  /\ id[f] = id[g]
  /\ result[f] # NULL /\ result[g] # NULL
  /\ view[f] = "absent" /\ view[g] = "absent"

Adds(f) == Len(SelectSeq(calls[f], LAMBDA c : c.cb = "add"))

\* C7: two concurrent `created`/`updated` notifications for an id that is
\* initially absent, both fetching a record of this service, are classified as
\* by some serial order of the two replaces: exactly one is CREATED, and onAdd
\* is invoked exactly once for the id.
C7_OneCreated ==
  \A f, g \in Flows :
    ConcurrentCreates(f, g) =>
      /\ (result[f] = "CREATED") # (result[g] = "CREATED")
      /\ Adds(f) + Adds(g) <= 1
      /\ Finished(f) /\ Finished(g) /\ Registered(addcallback)
           => Adds(f) + Adds(g) = 1

C7_Witness ==
  \E f, g \in Flows :
    /\ ConcurrentCreates(f, g) /\ Finished(f) /\ Finished(g)
    /\ result[f] = "UPDATED_DRIVER" /\ result[g] = "CREATED"
    /\ Adds(g) = 1 /\ Len(calls[f]) = 1

\* C8: for one device id, lifecycle callbacks are delivered in the order of the
\* registry mutations that produced them: a flow delivers its callback only when
\* no earlier mutation of the id still waits for its own dispatch.
C8_OrderedDelivery ==
  [][\A f \in Flows :
       Len(calls'[f]) > Len(calls[f]) => Head(pending[id[f]]) = f]_vars

\* C9: a flow that is inside the metadata fetch or inside a lifecycle callback
\* does not hold the registry's lock, and a held lock is always about to be
\* released by its holder.
C9_LockNotHeldOutside ==
  /\ \A f \in Flows :
       pc[f] \in {"fetch", "add_cb", "upd_cb", "del_cb", "mv_cb"} => lock # f
  /\ lock # NULL =>
       pc[lock] \in {"del_byid_ret", "del_remove_ret", "mv_remove_ret", "replace_ret"}

C9_Witness ==
  \E f, g \in Flows :
    /\ pc[f] \in {"add_cb", "upd_cb", "del_cb", "mv_cb"}
    /\ pc[g] \in {"del_byid_ret", "del_remove_ret", "mv_remove_ret", "replace_ret"}
    /\ lock = g

\* C10: once the service has started, a registration call is rejected and the
\* registered onAdd, onUpdate and onRemove stay exactly as they were.
C10_RegistrationAfterStartRejected ==
  [][logger # NULL => UNCHANGED <<addcallback, updatecallback, removecallback>>]_vars

C10_Witness ==
  /\ rejected
  /\ logger # NULL
  /\ addcallback = NULL /\ updatecallback # NULL /\ removecallback # NULL

\* C11 as stated: registration is write-once; once one registration has been
\* performed (here: one that supplied all three callbacks), no later
\* registration call, before or after the start, changes onAdd, onUpdate or
\* onRemove.
C11_WriteOnce ==
  [][(registered /\ addcallback # NULL /\ updatecallback # NULL /\ removecallback # NULL)
       => UNCHANGED <<addcallback, updatecallback, removecallback>>]_vars

\* C11 as amended: the gate is the start of the service, not an earlier
\* registration.  A registration call made after the start is rejected and
\* changes neither the callbacks nor the record of earlier registrations; the
\* callbacks of an earlier registration are replaced only by a registration
\* call made before the start.
C11_RegistrationGatedByStart ==
  [][/\ (~rejected /\ rejected') =>
          /\ logger # NULL
          /\ UNCHANGED <<addcallback, updatecallback, removecallback, registered>>
     /\ (registered /\ ~UNCHANGED <<addcallback, updatecallback, removecallback>>) =>
          /\ logger = NULL /\ logger' = NULL
          /\ registered' /\ UNCHANGED rejected]_vars

C11_Witness ==
  /\ registered /\ rejected
  /\ logger # NULL
  /\ addcallback # NULL /\ updatecallback = NULL /\ removecallback = NULL

\* the flow has made no lookup, fetch, replace or removal and no callback
Untouched(f) ==
  /\ calls[f] = <<>>
  /\ dev[f] = NULLDEV /\ newdev[f] = NULLDEV
  /\ result[f] = NULL /\ removed[f] = NULLDEV
  /\ \A i \in Ids : \A k \in 1..Len(pending[i]) : pending[i][k] # f

\* the flow holds a notification about a resource other than a device
NotDevice(f) ==
  /\ pc[f] # "idle"
  /\ req[f].parsed /\ req[f].type \notin {NULL, "DEVICE"}

\* C12: a notification whose type is not "DEVICE" is answered NOT_IMPLEMENTED
\* whatever its method and whether or not it has an id: its flow goes straight
\* to the return, makes no fetch, invokes no callback, and neither its entry
\* nor its return changes the registry.
C12_NotDeviceNotImplemented ==
  [][\A f \in Flows :
       /\ NotDevice(f)' =>
            /\ pc'[f] = "done"
            /\ status'[f] = MHD_HTTP_NOT_IMPLEMENTED
            /\ Untouched(f)'
       /\ (NotDevice(f) \/ NotDevice(f)') /\ pc'[f] # pc[f] => UNCHANGED devices]_vars

C12_Witness ==
  \E f \in Flows :
    /\ NotDevice(f) /\ Finished(f)
    /\ req[f].method = "DELETE" /\ req[f].id = "d1"
    /\ devices["d1"] # NULLDEV
    /\ Registered(removecallback)

\* the flow holds a notification about a device that names no device
DeviceWithoutId(f) ==
  /\ pc[f] # "idle"
  /\ req[f].parsed /\ req[f].type = "DEVICE" /\ req[f].id = NULL

\* C13: a notification of type "DEVICE" without an id is answered BAD_REQUEST
\* under every method: its flow goes straight to the return, makes no fetch,
\* invokes no callback, and neither its entry nor its return changes the registry.
C13_MissingIdBadRequest ==
  [][\A f \in Flows :
       /\ DeviceWithoutId(f)' =>
            /\ pc'[f] = "done"
            /\ status'[f] = MHD_HTTP_BAD_REQUEST
            /\ Untouched(f)'
       /\ (DeviceWithoutId(f) \/ DeviceWithoutId(f)') /\ pc'[f] # pc[f]
            => UNCHANGED devices]_vars

C13_Witness ==
  \E f, g \in Flows :
    /\ DeviceWithoutId(f) /\ Finished(f) /\ req[f].method = "DELETE"
    /\ DeviceWithoutId(g) /\ Finished(g) /\ req[g].method = "POST"
    /\ devices["d1"] # NULLDEV

\* the flow handles a `created` or `updated` notification and its fetch has
\* returned nothing: the device is unknown to the metadata service, or the
\* request failed
FetchFailed(f) ==
  /\ branch[f] = "POST_PUT"
  /\ pc[f] # "fetch"
  /\ newdev[f] = NULLDEV

\* C14: when the fetch for a `created` or `updated` notification fails or
\* returns nothing, the flow goes straight to the return with status OK: it
\* makes no map operation, invokes no callback, and the registry is as it was.
C14_FetchFailureDropped ==
  [][\A f \in Flows :
       /\ FetchFailed(f)' =>
            /\ pc'[f] = "done"
            /\ status'[f] = MHD_HTTP_OK
            /\ Untouched(f)'
       /\ (FetchFailed(f) \/ FetchFailed(f)') /\ pc'[f] # pc[f] => UNCHANGED devices]_vars

C14_Witness ==
  \E f \in Flows :
    /\ FetchFailed(f) /\ Finished(f)
    /\ devices[id[f]] # NULLDEV
    /\ Registered(addcallback) /\ Registered(updatecallback) /\ Registered(removecallback)

\* the flow handles a `deleted` notification, its lookup found a record, its
\* removal removed a record, and it has invoked onRemove
DeletedRecord(f) ==
  /\ branch[f] = "DELETE"
  /\ Finished(f)
  /\ dev[f] # NULLDEV
  /\ removed[f] # NULLDEV
  /\ Len(calls[f]) = 1

\* C15: the onRemove invoked for a `deleted` notification carries the name and
\* the protocols of the record that this notification's removal took out of the
\* registry, also when a concurrent `updated` notification replaces the record.
C15_RemoveCarriesRemoved ==
  \A f \in Flows :
    DeletedRecord(f) =>
      calls[f] = <<Call("remove", removed[f].name, removed[f].protocols)>>

\* the flow holds a notification that is JSON and has no "type" member
WithoutType(f) ==
  /\ pc[f] # "idle"
  /\ req[f].parsed /\ req[f].type = NULL

\* C16: a notification that lacks the type member is malformed: it is answered
\* BAD_REQUEST, and its flow goes straight to the return without a map
\* operation, a fetch or a callback.
C16_MissingTypeBadRequest ==
  \A f \in Flows :
    WithoutType(f) =>
      /\ pc[f] = "done"
      /\ status[f] = MHD_HTTP_BAD_REQUEST
      /\ Untouched(f)

\* the flow holds a notification about a device, with an id, under a method
\* other than POST, PUT and DELETE
OtherMethod(f) ==
  /\ pc[f] # "idle"
  /\ req[f].parsed /\ req[f].type = "DEVICE" /\ req[f].id # NULL
  /\ req[f].method \notin {"POST", "PUT", "DELETE"}

\* C17: a notification of type "DEVICE" with an id under a method other than
\* POST, PUT and DELETE is answered NOT_IMPLEMENTED: its flow goes straight to
\* the return, makes no fetch, invokes no callback, and neither its entry nor
\* its return changes the registry.
C17_OtherMethodNotImplemented ==
  [][\A f \in Flows :
       /\ OtherMethod(f)' =>
            /\ pc'[f] = "done"
            /\ status'[f] = MHD_HTTP_NOT_IMPLEMENTED
            /\ Untouched(f)'
       /\ (OtherMethod(f) \/ OtherMethod(f)') /\ pc'[f] # pc[f] => UNCHANGED devices]_vars

C17_Witness ==
  \E f \in Flows :
    /\ OtherMethod(f) /\ Finished(f)
    /\ branch[f] = "default"
    /\ devices[req[f].id] # NULLDEV
    /\ Registered(addcallback) /\ Registered(updatecallback) /\ Registered(removecallback)

\* no notification is being handled
Quiescent == \A f \in Flows : pc[f] = "idle"

\* C18: with all three callbacks registered and the registry empty at the
\* start, whenever no notification is being handled the ids whose last
\* delivered lifecycle callback is onAdd or onUpdate are exactly the ids that
\* the registry holds.
C18_DriverViewAgrees ==
  Quiescent =>
    \A i \in Ids : (delivered[i] \in {"add", "update"}) <=> (devices[i] # NULLDEV)

\* C19: under fair scheduling every flow that has entered the handler
\* eventually returns from it with its status; no interleaving leaves a flow
\* waiting for ever, on the registry's lock or anywhere else.
C19_EveryFlowReturns ==
  \A f \in Flows : (pc[f] # "idle") ~> (pc[f] = "idle")

\* what remains of C19 when the process survives: a flow returns unless the
\* process has been killed by an invalid memory access
C19_ReturnsUnlessCrashed ==
  \A f \in Flows : (pc[f] # "idle") ~> (pc[f] = "idle" \/ crashed # NULL)

\* the id of the notification that the flow handles in this step
Handled(f) == IF pc[f] = "idle" THEN id'[f] ELSE id[f]

\* C20: no step of a flow that handles a notification for an id changes the
\* registry's entry of any other id, and no step of a flow changes the
\* registered onAdd, onUpdate or onRemove.
C20_OtherIdsUntouched ==
  [][\A f \in Flows :
       (pc'[f] # pc[f] \/ (crashed = NULL /\ crashed' = f)) =>
         /\ UNCHANGED <<addcallback, updatecallback, removecallback>>
         /\ \A y \in Ids : y # Handled(f) => devices'[y] = devices[y]]_vars

C20_Witness ==
  \E f \in Flows :
    /\ pc[f] = "del_remove_ret"
    /\ removed[f] # NULLDEV
    /\ \E y \in Ids : y # id[f] /\ devices[y] # NULLDEV

====
